---- MODULE Spec2Model ----
(***************************************************************************)
(* Model of streamlit_app.py: the physician-compensation "stoplight".      *)
(*                                                                         *)
(* Numbers.  Python values that reach the computations are ints (sliders,  *)
(* the RVU threshold) and floats (number_input with float bounds, the      *)
(* TableRow percentiles).  A finite number is modelled exactly as a        *)
(* rational [kind |-> "num", n, d] with d > 0; the non-finite floats are   *)
(* the values PosInf, NegInf and NaN; Python's None is the value None; a   *)
(* raised ZeroDivisionError is the value ZeroDivisionError.                *)
(*                                                                         *)
(* The widget values used are whole numbers whose sums and products stay   *)
(* far below 2^53, so the float arithmetic of the forms is exact on them   *)
(* and is modelled by integer arithmetic; only the quotients and the       *)
(* per-RVU percentiles (34.78, 47.45, 64.67) are proper fractions.         *)
(***************************************************************************)
EXTENDS Integers, Sequences, FiniteSets, TLC

\* ------------------------------------------------------------------ values
Rat(n, d) == [kind |-> "num", n |-> n, d |-> d]
Num(n) == Rat(n, 1)
None == [kind |-> "None", n |-> 0, d |-> 1]
NaN == [kind |-> "nan", n |-> 0, d |-> 1]
PosInf == [kind |-> "inf", n |-> 0, d |-> 1]
NegInf == [kind |-> "-inf", n |-> 0, d |-> 1]
ZeroDivisionError == [kind |-> "ZeroDivisionError", n |-> 0, d |-> 1]

\* Python's "a < b" on ints and floats (IEEE 754 for the non-finite ones).
LT(a, b) ==
    CASE a.kind = "nan" \/ b.kind = "nan" -> FALSE
      [] a.kind = "inf" -> FALSE
      [] b.kind = "-inf" -> FALSE
      [] a.kind = "-inf" -> TRUE
      [] b.kind = "inf" -> TRUE
      [] OTHER -> a.n * b.d < b.n * a.d

\* Python's "a <= b".
LE(a, b) ==
    CASE a.kind = "nan" \/ b.kind = "nan" -> FALSE
      [] b.kind = "inf" -> TRUE
      [] a.kind = "-inf" -> TRUE
      [] a.kind = "inf" -> FALSE
      [] b.kind = "-inf" -> FALSE
      [] OTHER -> a.n * b.d <= b.n * a.d

\* Python's "a == b" on numbers.
EQ(a, b) ==
    CASE a.kind = "nan" \/ b.kind = "nan" -> FALSE
      [] a.kind = "num" /\ b.kind = "num" -> a.n * b.d = b.n * a.d
      [] OTHER -> a.kind = b.kind

\* Python's "a / b" on finite numbers: ZeroDivisionError when b is zero.
TrueDiv(a, b) ==
    IF b.n = 0 THEN ZeroDivisionError ELSE Rat(a.n * b.d, a.d * b.n)

\* ------------------------------------------------------------------- enums
SURGERY_TRAUMA == "Surgery: Trauma"
Specialty == {SURGERY_TRAUMA}

TOTAL_COMPENSATION == "Total Compensation"
TOTAL_HOURS == "Total Hours"
TOTAL_RVUS == "Total RVUs"
COMPERSATION_PER_HOUR == "Compensation per Hour"
COMPERSATION_PER_RVU == "Compensation per RVU"
Metric == {TOTAL_COMPENSATION, TOTAL_HOURS, TOTAL_RVUS,
           COMPERSATION_PER_HOUR, COMPERSATION_PER_RVU}

BY_RVUS == "By RVUs"
HOURLY == "Hourly"
PaymentTemplate == {BY_RVUS, HOURLY}

\* ----------------------------------------------------------- benchmark data
\* TableRow: the fields the program reads (specialty, metric, p25..p90).
TableRow(s, m, q25, q50, q75, q90) ==
    [specialty |-> s, metric |-> m, p25 |-> q25, p50 |-> q50, p75 |-> q75, p90 |-> q90]

\* A variant of the table that also has a row for compensation per hour.
STATS_TABLE_with_hour_row ==
    << TableRow(SURGERY_TRAUMA, TOTAL_COMPENSATION,
                Num(405815), Num(473355), Num(550500), Num(662930)),
       TableRow(SURGERY_TRAUMA, TOTAL_RVUS,
                Num(6270), Num(11107), Num(14285), None),
       TableRow(SURGERY_TRAUMA, COMPERSATION_PER_RVU,
                Rat(3478, 100), Rat(4745, 100), Rat(6467, 100), None),
       TableRow(SURGERY_TRAUMA, COMPERSATION_PER_HOUR,
                Num(150), Num(200), Num(250), None) >>

STATS_TABLE ==
    << TableRow(SURGERY_TRAUMA, TOTAL_COMPENSATION,
                Num(405815), Num(473355), Num(550500), Num(662930)),
       TableRow(SURGERY_TRAUMA, TOTAL_RVUS,
                Num(6270), Num(11107), Num(14285), None),
       TableRow(SURGERY_TRAUMA, COMPERSATION_PER_RVU,
                Rat(3478, 100), Rat(4745, 100), Rat(6467, 100), None) >>

\* ------------------------------------------------------- HourlyTemplateForm
\* A variant that pays the on-call rate for the on-site hours.
Hourly_compute_compensation_wrong_hours(self) ==
    self.onsite_rate * self.onsite_hours + self.call_rate * self.onsite_hours
        + self.other_compensation

Hourly_compute_compensation(self) ==
    self.onsite_rate * self.onsite_hours + self.call_rate * self.call_hours
        + self.other_compensation

\* A variant that forgets the on-call hours.
Hourly_compute_total_hours_onsite_only(self) == self.onsite_hours

Hourly_compute_total_hours(self) == self.onsite_hours + self.call_hours

Hourly_compute_metric(self, metric) ==
    IF metric = TOTAL_COMPENSATION THEN Num(Hourly_compute_compensation(self))
    ELSE IF metric = TOTAL_HOURS THEN Num(Hourly_compute_total_hours(self))
    ELSE IF metric = COMPERSATION_PER_HOUR
         THEN TrueDiv(Num(Hourly_compute_compensation(self)),
                      Num(Hourly_compute_total_hours(self)))
    ELSE None

\* ---------------------------------------------------------- RVUTemplateForm
\* A variant that pays the rate on every RVU once the threshold is passed.
RVU_compute_compensation_no_subtraction(self) ==
    LET total_rvus_compensation ==
            IF self.total_rvus <= self.rvu_threshold
            THEN self.base_comp
            ELSE self.base_comp + self.total_rvus * self.rvu_rate
    IN  total_rvus_compensation + self.other_compensation

RVU_compute_compensation(self) ==
    LET total_rvus_compensation ==
            IF self.total_rvus <= self.rvu_threshold
            THEN self.base_comp
            ELSE self.base_comp + (self.total_rvus - self.rvu_threshold) * self.rvu_rate
    IN  total_rvus_compensation + self.other_compensation

RVU_compute_total_rvus(self) == self.total_rvus

RVU_compute_metric(self, metric) ==
    IF metric = TOTAL_COMPENSATION THEN Num(RVU_compute_compensation(self))
    ELSE IF metric = TOTAL_RVUS THEN Num(RVU_compute_total_rvus(self))
    ELSE IF metric = COMPERSATION_PER_RVU
         THEN TrueDiv(Num(RVU_compute_compensation(self)),
                      Num(RVU_compute_total_rvus(self)))
    ELSE None

\* Dynamic dispatch of template_form.compute_metric on the form's class.
compute_metric(self, metric) ==
    IF self.template = HOURLY THEN Hourly_compute_metric(self, metric)
    ELSE RVU_compute_metric(self, metric)

\* -------------------------------------------------------------- classifier
\* A variant in which an absent threshold matches every value.
get_percentile_for_comp_absent_matches(stats, comp) ==
    IF stats.p25 = None \/ LT(comp, stats.p25)
        THEN <<"below 25th percentile", "orange">>
    ELSE IF stats.p50 = None \/ LT(comp, stats.p50)
        THEN <<"between 25th and 50th percentile", "green">>
    ELSE IF stats.p75 = None \/ LT(comp, stats.p75)
        THEN <<"between 50th and 75th percentile", "yellow">>
    ELSE IF stats.p90 = None \/ LT(comp, stats.p90)
        THEN <<"between 75th and 90th percentile", "red">>
    ELSE <<"above 90th percentile", "red">>

\* A variant with inclusive comparisons.
get_percentile_for_comp_inclusive(stats, comp) ==
    IF stats.p25 # None /\ LE(comp, stats.p25)
        THEN <<"below 25th percentile", "orange">>
    ELSE IF stats.p50 # None /\ LE(comp, stats.p50)
        THEN <<"between 25th and 50th percentile", "green">>
    ELSE IF stats.p75 # None /\ LE(comp, stats.p75)
        THEN <<"between 50th and 75th percentile", "yellow">>
    ELSE IF stats.p90 # None /\ LE(comp, stats.p90)
        THEN <<"between 75th and 90th percentile", "red">>
    ELSE <<"above 90th percentile", "red">>

\* A variant that tests the median before the 25th percentile.
get_percentile_for_comp_median_first(stats, comp) ==
    IF stats.p50 # None /\ LT(comp, stats.p50)
        THEN <<"between 25th and 50th percentile", "green">>
    ELSE IF stats.p25 # None /\ LT(comp, stats.p25)
        THEN <<"below 25th percentile", "orange">>
    ELSE IF stats.p75 # None /\ LT(comp, stats.p75)
        THEN <<"between 50th and 75th percentile", "yellow">>
    ELSE IF stats.p90 # None /\ LT(comp, stats.p90)
        THEN <<"between 75th and 90th percentile", "red">>
    ELSE <<"above 90th percentile", "red">>

get_percentile_for_comp(stats, comp) ==
    IF stats.p25 # None /\ LT(comp, stats.p25)
        THEN <<"below 25th percentile", "orange">>
    ELSE IF stats.p50 # None /\ LT(comp, stats.p50)
        THEN <<"between 25th and 50th percentile", "green">>
    ELSE IF stats.p75 # None /\ LT(comp, stats.p75)
        THEN <<"between 50th and 75th percentile", "yellow">>
    ELSE IF stats.p90 # None /\ LT(comp, stats.p90)
        THEN <<"between 75th and 90th percentile", "red">>
    ELSE <<"above 90th percentile", "red">>


\* ------------------------------------------------------------------ bounds
\* Abstract percentile thresholds range over 1..MaxThreshold and abstract
\* values over 0..MaxThreshold+1, so every presence pattern and every relative
\* order of four thresholds occurs, with values below, on and above each.
MaxThreshold == 4

\* Slider maxima (st.slider max_value).
MaxHours == 4000
MaxRVUs == 20000

\* ------------------------------------------------------------------- state
VARIABLES
    pc,             \* position of main: "start", "loop", "done", "raised";
                    \* "call" in the specifications that call one function
    template_form,  \* the TemplateForm object built from the widgets
    specialty,      \* the selected specialty
    rows,           \* main's list of rows of the selected specialty
    idx,            \* 1-based position of main's for loop in rows
    displayed,      \* what main has rendered, one record per displayed row
    metric_arg,     \* compute_metric call: the metric argument ("" = no call yet)
    metric_ret,     \* compute_metric call: the returned value or raised error
    stats,          \* get_percentile_for_comp call: the row argument
    comp,           \* get_percentile_for_comp call: the value argument
    ret,            \* get_percentile_for_comp call: the returned tuple
    prev_comp,      \* the value argument of the call before, on the same row
    prev_ret        \* the tuple returned by the call before

vars == <<pc, template_form, specialty, rows, idx, displayed,
          metric_arg, metric_ret, stats, comp, ret, prev_comp, prev_ret>>

main_vars == <<pc, template_form, specialty, rows, idx, displayed>>
metric_call_vars == <<metric_arg, metric_ret>>
classify_call_vars == <<stats, comp, ret, prev_comp, prev_ret>>

NoForm == [template |-> "none"]
NoCall == ""
NoStats == TableRow("", "", None, None, None, None)

\* -------------------------------------------------------------- the widgets
\* Values the widgets can deliver: number_input(min_value=0.0) gives any
\* float >= 0, number_input(min_value=0) any int >= 0, the sliders an int in
\* 0..max_value.  The sets hold the widget defaults, the minima, the slider
\* maxima and the values on both sides of the RVU threshold.
OnsiteRateInputs == {0, 200}
CallRateInputs == {0, 50}
OtherCompensationInputs == {0, 25000}
OnsiteHoursInputs == {0, 2080, MaxHours}
CallHoursInputs == {0, 500, MaxHours}
BaseCompInputs == {0, 300000}
RvuThresholdInputs == {0, 5000}
RvuRateInputs == {0, 50}
TotalRvusInputs == {0, 5000, 5001, 7000, MaxRVUs}

HourlyTemplateForm ==
    [template : {HOURLY}, onsite_rate : OnsiteRateInputs, call_rate : CallRateInputs,
     other_compensation : OtherCompensationInputs,
     onsite_hours : OnsiteHoursInputs, call_hours : CallHoursInputs]

RVUTemplateForm ==
    [template : {BY_RVUS}, base_comp : BaseCompInputs, rvu_threshold : RvuThresholdInputs,
     rvu_rate : RvuRateInputs, other_compensation : OtherCompensationInputs,
     total_rvus : TotalRvusInputs]

\* rows = [row for row in STATS_TABLE if row.specialty.value == specialty]
RowsOfSpecialty(s) == SelectSeq(STATS_TABLE, LAMBDA row : row.specialty = s)

\* -------------------------------------------------------------------- main
Init ==
    /\ pc = "start"
    /\ template_form = NoForm
    /\ specialty = ""
    /\ rows = <<>>
    /\ idx = 0
    /\ displayed = <<>>
    /\ metric_arg = NoCall
    /\ metric_ret = None
    /\ stats = NoStats
    /\ comp = None
    /\ ret = <<>>
    /\ prev_comp = None
    /\ prev_ret = <<>>

\* main, up to the loop, when "Hourly" is selected.
MainHourly ==
    /\ pc = "start"
    /\ \E s \in Specialty, f \in HourlyTemplateForm :
        /\ specialty' = s
        /\ template_form' = f
        /\ rows' = RowsOfSpecialty(s)
    /\ idx' = 1
    /\ pc' = "loop"
    /\ UNCHANGED <<displayed, metric_call_vars, classify_call_vars>>

\* main, up to the loop, when "By RVUs" is selected.
MainByRVUs ==
    /\ pc = "start"
    /\ \E s \in Specialty, f \in RVUTemplateForm :
        /\ specialty' = s
        /\ template_form' = f
        /\ rows' = RowsOfSpecialty(s)
    /\ idx' = 1
    /\ pc' = "loop"
    /\ UNCHANGED <<displayed, metric_call_vars, classify_call_vars>>

\* A variant of the test that skips every falsy metric ("if not metric").
MetricIsNone_falsy(metric) == metric = None \/ EQ(metric, Num(0))

\* main's test "if metric is None".
MetricIsNone(metric) == metric = None

\* One iteration of the loop whose compute_metric returns None: continue.
LoopContinue ==
    /\ pc = "loop"
    /\ idx <= Len(rows)
    /\ MetricIsNone(compute_metric(template_form, rows[idx].metric))
    /\ idx' = idx + 1
    /\ UNCHANGED <<pc, template_form, specialty, rows, displayed,
                   metric_call_vars, classify_call_vars>>

\* One iteration whose compute_metric raises: nothing in main catches the
\* exception, so it leaves main.
LoopRaise ==
    /\ pc = "loop"
    /\ idx <= Len(rows)
    /\ compute_metric(template_form, rows[idx].metric) = ZeroDivisionError
    /\ pc' = "raised"
    /\ UNCHANGED <<template_form, specialty, rows, idx, displayed,
                   metric_call_vars, classify_call_vars>>

\* One iteration whose compute_metric returns a number: the row's statistics
\* and the sentence with the percentile range are rendered.
LoopDisplay ==
    /\ pc = "loop"
    /\ idx <= Len(rows)
    /\ LET row == rows[idx]
           metric == compute_metric(template_form, row.metric)
           r == get_percentile_for_comp(row, metric)
       IN  /\ metric # ZeroDivisionError
           /\ ~MetricIsNone(metric)
           /\ displayed' = Append(displayed,
                  [metric |-> row.metric, value |-> metric,
                   percentile_str |-> r[1], color |-> r[2]])
    /\ idx' = idx + 1
    /\ UNCHANGED <<pc, template_form, specialty, rows,
                   metric_call_vars, classify_call_vars>>

\* The loop is exhausted: main returns.
LoopEnd ==
    /\ pc = "loop"
    /\ idx > Len(rows)
    /\ pc' = "done"
    /\ UNCHANGED <<template_form, specialty, rows, idx, displayed,
                   metric_call_vars, classify_call_vars>>

Next == MainHourly \/ MainByRVUs \/ LoopContinue \/ LoopRaise \/ LoopDisplay \/ LoopEnd

Spec == Init /\ [][Next]_vars

\* ------------------------------------------- compute_metric, called directly
InitMetric ==
    /\ pc = "call"
    /\ template_form \in HourlyTemplateForm \cup RVUTemplateForm
    /\ specialty = ""
    /\ rows = <<>>
    /\ idx = 0
    /\ displayed = <<>>
    /\ metric_arg = NoCall
    /\ metric_ret = None
    /\ stats = NoStats
    /\ comp = None
    /\ ret = <<>>
    /\ prev_comp = None
    /\ prev_ret = <<>>

CallHourlyComputeMetric ==
    /\ pc = "call"
    /\ template_form.template = HOURLY
    /\ \E m \in Metric :
        /\ metric_arg' = m
        /\ metric_ret' = Hourly_compute_metric(template_form, m)
    /\ UNCHANGED <<main_vars, classify_call_vars>>

CallRVUComputeMetric ==
    /\ pc = "call"
    /\ template_form.template = BY_RVUS
    /\ \E m \in Metric :
        /\ metric_arg' = m
        /\ metric_ret' = RVU_compute_metric(template_form, m)
    /\ UNCHANGED <<main_vars, classify_call_vars>>

NextMetric == CallHourlyComputeMetric \/ CallRVUComputeMetric

SpecMetric == InitMetric /\ [][NextMetric]_vars

\* ---------------------------------- get_percentile_for_comp, called directly
Optional(S) == {None} \cup S

AbstractThresholds == {Num(n) : n \in 1..MaxThreshold}

\* Rows with every subset of the percentiles present, in any order, and the
\* rows of STATS_TABLE.
ClassifyRows ==
    {TableRow(SURGERY_TRAUMA, TOTAL_COMPENSATION, a, b, c, d) :
        a \in Optional(AbstractThresholds), b \in Optional(AbstractThresholds),
        c \in Optional(AbstractThresholds), d \in Optional(AbstractThresholds)}
    \cup {STATS_TABLE[k] : k \in 1..Len(STATS_TABLE)}

\* Any int or float can be passed: numbers around the thresholds, and the
\* non-finite floats.
ClassifyValues ==
    {Num(n) : n \in 0..(MaxThreshold + 1)}
    \cup {Num(400000), Num(473355), Num(6270), Rat(3478, 100)}
    \cup {NaN, PosInf, NegInf}

InitClassify ==
    /\ pc = "call"
    /\ template_form = NoForm
    /\ specialty = ""
    /\ rows = <<>>
    /\ idx = 0
    /\ displayed = <<>>
    /\ metric_arg = NoCall
    /\ metric_ret = None
    /\ stats \in ClassifyRows
    /\ comp = None
    /\ ret = <<>>
    /\ prev_comp = None
    /\ prev_ret = <<>>

CallGetPercentileForComp ==
    /\ pc = "call"
    /\ \E v \in ClassifyValues :
        /\ comp' = v
        /\ ret' = get_percentile_for_comp(stats, v)
    /\ prev_comp' = comp
    /\ prev_ret' = ret
    /\ UNCHANGED <<main_vars, metric_call_vars, stats>>

NextClassify == CallGetPercentileForComp

SpecClassify == InitClassify /\ [][NextClassify]_vars


\* ================================================================ properties
Called == pc = "call" /\ comp # None
Present(t) == t # None
Below(v, t) == Present(t) /\ LT(v, t)

\* The buckets in their order, below-25th = 1 ... above-90th = 5.
Rank(label) ==
    CASE label = "below 25th percentile" -> 1
      [] label = "between 25th and 50th percentile" -> 2
      [] label = "between 50th and 75th percentile" -> 3
      [] label = "between 75th and 90th percentile" -> 4
      [] label = "above 90th percentile" -> 5

BucketResults ==
    { <<"below 25th percentile", "orange">>,
      <<"between 25th and 50th percentile", "green">>,
      <<"between 50th and 75th percentile", "yellow">>,
      <<"between 75th and 90th percentile", "red">>,
      <<"above 90th percentile", "red">> }

\* The present thresholds of a row are non-decreasing.
NonDecreasing(row) ==
    LET t == <<row.p25, row.p50, row.p75, row.p90>>
    IN  \A a \in 1..4, b \in 1..4 :
            (a < b /\ Present(t[a]) /\ Present(t[b])) => LE(t[a], t[b])

StatsRow1 == STATS_TABLE[1]

\* C1: for every row (each percentile present or absent) and every value the
\* result is that of the first matching rung: below-25th/orange if p25 is
\* present and value < p25, else 25th-50th/green on p50, else 50th-75th/yellow
\* on p75, else 75th-90th/red on p90, else above-90th/red; an absent threshold
\* never matches, so a row without thresholds gives above-90th for every value.
C1_Ladder ==
    Called =>
        LET m1 == Below(comp, stats.p25)
            m2 == Below(comp, stats.p50)
            m3 == Below(comp, stats.p75)
            m4 == Below(comp, stats.p90)
        IN  /\ m1 => ret = <<"below 25th percentile", "orange">>
            /\ (~m1 /\ m2) => ret = <<"between 25th and 50th percentile", "green">>
            /\ (~m1 /\ ~m2 /\ m3) => ret = <<"between 50th and 75th percentile", "yellow">>
            /\ (~m1 /\ ~m2 /\ ~m3 /\ m4) => ret = <<"between 75th and 90th percentile", "red">>
            /\ (~m1 /\ ~m2 /\ ~m3 /\ ~m4) => ret = <<"above 90th percentile", "red">>
            /\ (~Present(stats.p25) /\ ~Present(stats.p50) /\ ~Present(stats.p75)
                    /\ ~Present(stats.p90)) => ret = <<"above 90th percentile", "red">>
            /\ Rank(ret[1]) = 1 => Present(stats.p25)
            /\ Rank(ret[1]) = 2 => Present(stats.p50)
            /\ Rank(ret[1]) = 3 => Present(stats.p75)
            /\ Rank(ret[1]) = 4 => Present(stats.p90)

\* C1 witness: a call on a row with p25 and p75 absent that is decided by the
\* p90 rung after the p50 rung failed.
C1_Witness ==
    /\ Called
    /\ ~Present(stats.p25) /\ Present(stats.p50) /\ ~Present(stats.p75) /\ Present(stats.p90)
    /\ ~LT(comp, stats.p50) /\ LT(comp, stats.p90)
    /\ ret = <<"between 75th and 90th percentile", "red">>

\* The k-th threshold of a row is present and the value equals it.
OnThreshold(row, v, k) ==
    LET t == <<row.p25, row.p50, row.p75, row.p90>>
    IN  Present(t[k]) /\ EQ(v, t[k])

C3_ZeroUnitsHandled ==
    (template_form.template = BY_RVUS /\ template_form.total_rvus = 0) =>
        /\ RVU_compute_metric(template_form, COMPERSATION_PER_RVU) = ZeroDivisionError
        /\ \A k \in 1..Len(displayed) : displayed[k].metric # COMPERSATION_PER_RVU
        /\ pc # "raised"

\* C4 (as stated): called with a value that is not a finite number the
\* classifier fails; it never returns a bucket label and severity.
C4_NonFiniteRejected ==
    (Called /\ comp.kind \in {"nan", "inf", "-inf"}) => ret \notin BucketResults

MetricCalled(t, m) ==
    pc = "call" /\ template_form.template = t /\ metric_arg = m

\* C5: the Productivity total compensation is base_comp + other_compensation
\* when total_units <= threshold and base_comp + (total_units - threshold) *
\* rate + other_compensation when total_units > threshold; at total_units =
\* threshold it is base_comp + other_compensation and at threshold + 1 it is
\* base_comp + rate + other_compensation.
C5_RvuCompensation ==
    MetricCalled(BY_RVUS, TOTAL_COMPENSATION) =>
        LET f == template_form
        IN  /\ f.total_rvus <= f.rvu_threshold =>
                 metric_ret = Num(f.base_comp + f.other_compensation)
            /\ f.total_rvus > f.rvu_threshold =>
                 metric_ret = Num(f.base_comp
                                  + (f.total_rvus - f.rvu_threshold) * f.rvu_rate
                                  + f.other_compensation)
            /\ f.total_rvus = f.rvu_threshold =>
                 metric_ret = Num(f.base_comp + f.other_compensation)
            /\ f.total_rvus = f.rvu_threshold + 1 =>
                 metric_ret = Num(f.base_comp + f.rvu_rate + f.other_compensation)

\* C5 witness: total compensation computed one unit above a positive
\* threshold with a positive rate.
C5_Witness ==
    /\ MetricCalled(BY_RVUS, TOTAL_COMPENSATION)
    /\ template_form.rvu_threshold > 0
    /\ template_form.total_rvus = template_form.rvu_threshold + 1
    /\ template_form.rvu_rate > 0
    /\ metric_ret = Num(template_form.base_comp + template_form.rvu_rate
                        + template_form.other_compensation)

DefaultHourlyForm ==
    [template |-> HOURLY, onsite_rate |-> 200, call_rate |-> 50,
     other_compensation |-> 0, onsite_hours |-> 2080, call_hours |-> 500]

\* C6 (as stated): for onsite_rate=200, onsite_hours=2080, call_rate=50,
\* call_hours=500, other=0 the total compensation is 466000 and the total
\* hours are 2580, so that compensation per hour is about 180.62.
C6_Original ==
    (pc = "call" /\ template_form = DefaultHourlyForm) =>
        /\ metric_arg = TOTAL_COMPENSATION => metric_ret = Num(466000)
        /\ metric_arg = TOTAL_HOURS => metric_ret = Num(2580)
        /\ metric_arg = COMPERSATION_PER_HOUR =>
             /\ LE(Rat(18062, 100), metric_ret)
             /\ LT(metric_ret, Rat(18063, 100))

\* C6 (amended): for the same inputs the total compensation is 441000
\* (416000 on-site + 25000 on-call) and the total hours are 2580, so that
\* compensation per hour is about 170.93.
C6_Amended ==
    (pc = "call" /\ template_form = DefaultHourlyForm) =>
        /\ metric_arg = TOTAL_COMPENSATION => metric_ret = Num(441000)
        /\ metric_arg = TOTAL_HOURS => metric_ret = Num(2580)
        /\ metric_arg = COMPERSATION_PER_HOUR =>
             /\ LE(Rat(17093, 100), metric_ret)
             /\ LT(metric_ret, Rat(17094, 100))

\* C6 witness: total compensation computed for the scenario's inputs.
C6_Witness ==
    /\ MetricCalled(HOURLY, TOTAL_COMPENSATION)
    /\ template_form = DefaultHourlyForm
    /\ metric_ret = Num(441000)

\* C7: for all Hourly inputs total compensation is onsite_rate * onsite_hours
\* + call_rate * call_hours + other_compensation and total hours is
\* onsite_hours + call_hours.
C7_HourlyTotals ==
    LET f == template_form
    IN  /\ MetricCalled(HOURLY, TOTAL_COMPENSATION) =>
             metric_ret = Num(f.onsite_rate * f.onsite_hours
                              + f.call_rate * f.call_hours + f.other_compensation)
        /\ MetricCalled(HOURLY, TOTAL_HOURS) =>
             metric_ret = Num(f.onsite_hours + f.call_hours)

\* C7 witness: total hours computed with both kinds of hours positive.
C7_Witness ==
    /\ MetricCalled(HOURLY, TOTAL_HOURS)
    /\ template_form.onsite_hours > 0
    /\ template_form.call_hours > 0
    /\ metric_ret = Num(template_form.onsite_hours + template_form.call_hours)

\* The metrics a template cannot produce.
NotApplicable(t) ==
    IF t = HOURLY THEN {TOTAL_RVUS, COMPERSATION_PER_RVU}
    ELSE {TOTAL_HOURS, COMPERSATION_PER_HOUR}

DisplayedMetrics == {displayed[k].metric : k \in 1..Len(displayed)}

\* The rows main's loop has finished with (displayed or skipped).
Processed == IF pc \in {"loop", "done", "raised"} THEN 1..(idx - 1) ELSE {}

\* C8: a not-applicable metric yields None, not an error (Hourly: total RVUs
\* and compensation per RVU; Productivity: total hours and compensation per
\* hour); main displays and classifies a row only if compute_metric returned
\* a value for it, and a value of 0 is a value and is displayed.
C8_NotApplicable ==
    (template_form # NoForm /\ pc # "call") =>
        /\ \A m \in NotApplicable(template_form.template) :
                compute_metric(template_form, m) = None
        /\ \A k \in 1..Len(displayed) :
                /\ displayed[k].value # None
                /\ displayed[k].value = compute_metric(template_form, displayed[k].metric)
                /\ displayed[k].metric \notin NotApplicable(template_form.template)
        /\ \A k \in Processed :
                (rows[k].metric \in DisplayedMetrics)
                    <=> (compute_metric(template_form, rows[k].metric) # None)

\* C8 witness: an Hourly run that displayed a total compensation of 0 and
\* skipped the two RVU rows.
C8_Witness ==
    /\ pc = "done"
    /\ template_form.template = HOURLY
    /\ Len(displayed) = 1
    /\ displayed[1].metric = TOTAL_COMPENSATION
    /\ displayed[1].value = Num(0)
    /\ Len(rows) = 3

\* C9: with the Hourly template main never divides by zero, whatever the
\* inputs (zero hours included): no row asks for compensation per hour, and a
\* finished run has displayed exactly the Total Compensation row; with the
\* Productivity template and total_units = 0 the run ends in the division by
\* zero.
C9_HourlyNeverDivides ==
    /\ template_form.template = HOURLY =>
        /\ pc # "raised"
        /\ \A k \in 1..Len(rows) : rows[k].metric # COMPERSATION_PER_HOUR
        /\ pc = "done" =>
            /\ Len(displayed) = 1
            /\ displayed[1].metric = TOTAL_COMPENSATION
    /\ (template_form.template = BY_RVUS /\ template_form.total_rvus = 0) =>
        /\ pc # "done"
        /\ \E k \in 1..Len(rows) : rows[k].metric = COMPERSATION_PER_RVU

\* C9 witness: an Hourly run with no hours at all has finished.
C9_Witness ==
    /\ pc = "done"
    /\ template_form.template = HOURLY
    /\ template_form.onsite_hours = 0
    /\ template_form.call_hours = 0
    /\ Len(displayed) = 1

TwoCalls == pc = "call" /\ comp # None /\ prev_comp # None

\* C10: for every row, its present thresholds in any order, and all values
\* v1 <= v2, the bucket of v1 is not higher than the bucket of v2.
C10_Monotone ==
    TwoCalls =>
        /\ LE(prev_comp, comp) => Rank(prev_ret[1]) <= Rank(ret[1])
        /\ LE(comp, prev_comp) => Rank(ret[1]) <= Rank(prev_ret[1])

\* C10 witness: two values in different buckets of a row whose thresholds
\* are out of order.
C10_Witness ==
    /\ TwoCalls
    /\ ~NonDecreasing(stats)
    /\ LT(prev_comp, comp)
    /\ Rank(prev_ret[1]) < Rank(ret[1])

====
